---- MODULE Spec2Model ----
(***************************************************************************)
(* Process manager (serbathome/processmanager): the supervision and        *)
(* health-coordination engine of src/main_test.go, lines 150-434 (the      *)
(* current main package: watchProcess, startProcess, Wait, stopProcess,    *)
(* healthCheck, healthCheckLoop, restartProcesses, restartHandler,         *)
(* healthCheckHandler).                                                    *)
(*                                                                         *)
(* One watchdog goroutine per supervised process, one health-check loop    *)
(* goroutine, one goroutine per inbound HTTP request.  Every step of the   *)
(* model is one access to shared state (a handle's CmdObject, the OS       *)
(* process behind it, a TCP port, restartMutex); goroutines interleave at  *)
(* those steps.                                                            *)
(***************************************************************************)
EXTENDS Integers, FiniteSets

\* Number of entries of config.Processes.
NumProcs == 2
\* Number of /restart requests that can be in flight at the same time.
NumRestartReqs == 2
\* Number of /health requests that can be in flight at the same time.
NumHealthReqs == 1
\* Longest process list healthCheck is applied to on its own.
MaxProcesses == 5
\* Number of lines one process instance writes to each of its output streams.
MaxLines == 2
\* Number of OS processes of one handle, spawned and not yet reaped, up to which
\* the stop-then-start variant of the restart is followed.
MaxLive == 2

Procs == 1..NumProcs

\* Goroutines other than the watchdogs: the health-check loop and the HTTP
\* handler goroutines.
LoopTask == 0
RestartTasks == 1..NumRestartReqs
HealthTasks == (NumRestartReqs + 1)..(NumRestartReqs + NumHealthReqs)
GateTasks == {LoopTask} \cup RestartTasks
Tasks == GateTasks \cup HealthTasks

\* Indices of a process list of the longest length.
ListIdx == 1..MaxProcesses

\* The two output streams of a process instance (StdoutPipe, StderrPipe).
Streams == {"stdout", "stderr"}

VARIABLES
    CmdObject,     \* [Procs -> {"nil","noproc","proc"}]: Process.CmdObject; "noproc" is
                   \* an exec.Cmd whose Process field is nil (not started, or Start failed)
    osProc,        \* [Procs -> ...]: the OS process behind CmdObject.Process
    listening,     \* [Procs -> BOOLEAN]: 127.0.0.1:Port accepts a TCP connection
    live,          \* [Procs -> Nat]: OS processes spawned for the handle and not yet reaped
    wpc,           \* [Procs -> ...]: position of the handle's watchProcess goroutine
    waitLog,       \* [Procs -> SUBSET ...]: what (*Process).Wait logged for the last wait
    restartMutex,  \* BOOLEAN: restartMutex is locked
    pc,            \* [Tasks -> ...]: position of the loop / handler goroutine
    idx,           \* [Tasks -> 0..NumProcs]: loop index i of healthCheck / restartProcesses
    status,        \* [Tasks -> {0,200,503}]: status written to the ResponseWriter (0: none)
    outcome,       \* [Tasks -> ...]: branch of restartHandler that wrote the status
    crashed,       \* BOOLEAN: the supervisor process has died (unrecovered panic / fatal)
    \* One call of healthCheck taken on its own.
    hcLen,         \* 0..MaxProcesses: len(config.Processes)
    hcReach,       \* [ListIdx -> BOOLEAN]: the port of Processes[i-1] accepts a connection
    hcI,           \* 0..MaxProcesses+1: loop variable i, 1-based (0: no call in progress)
    hcProbes,      \* [ListIdx -> Nat]: canConnectToProcess calls made on Processes[i-1]
    hcResult,      \* "none" (not returned yet), "true", "false": the value returned
    \* One run of one process instance and its two captureOutput goroutines.
    outProc,       \* "none", "running", "exited", "reaped": the instance
    outWritten,    \* [Streams -> 0..MaxLines]: lines the instance has written
    outPipe,       \* [Streams -> 0..MaxLines]: lines in the pipe, written and not yet read
    outLogged,     \* [Streams -> 0..MaxLines]: lines captureOutput has logged
    outClosed,     \* [Streams -> BOOLEAN]: the supervisor's read end has been closed
    outReader,     \* [Streams -> ...]: position of the stream's captureOutput goroutine
    \* The variant of src/main.go whose restartProcesses stops and starts.
    oldProc,       \* [Procs -> ...]: the OS process of the Cmd the watchdog is waiting
                   \* on, once another goroutine has replaced CmdObject ("none": the
                   \* watchdog waits on the current Cmd)
    orphans        \* [Procs -> 0..MaxLive]: running OS processes of Cmds that no
                   \* goroutine refers to any more

procVars == <<CmdObject, osProc, listening, live>>
dogVars == <<wpc, waitLog>>
taskVars == <<pc, idx, status, outcome>>
coreVars == <<CmdObject, osProc, listening, live, wpc, waitLog, restartMutex, pc, idx,
              status, outcome, crashed>>
checkVars == <<hcLen, hcReach, hcI, hcProbes, hcResult>>
outVars == <<outProc, outWritten, outPipe, outLogged, outClosed, outReader>>
variantVars == <<oldProc, orphans>>
auxVars == <<checkVars, outVars, variantVars>>
vars == <<coreVars, auxVars>>

\* States of the OS process behind a handle's current exec.Cmd.
Terminated == {"exit0", "exitN", "signaled"}
OsStates == {"none", "running", "reaped"} \cup Terminated

\* Outcomes of the three fallible calls of startProcess.
SpawnResults == {"ok", "stdoutPipeErr", "stderrPipeErr", "startErr"}

StatusOK == 200
StatusServiceUnavailable == 503

TypeOK ==
    /\ CmdObject \in [Procs -> {"nil", "noproc", "proc"}]
    /\ osProc \in [Procs -> OsStates]
    /\ listening \in [Procs -> BOOLEAN]
    /\ live \in [Procs -> Nat]
    /\ wpc \in [Procs -> {"start", "spawn", "wait", "exited"}]
    /\ waitLog \in [Procs -> SUBSET {"success", "code", "signal", "error"}]
    /\ restartMutex \in BOOLEAN
    /\ pc \in [Tasks -> {"sleep", "idle", "check", "trylock", "stop", "kill",
                         "unlock", "return", "command", "start"}]
    /\ idx \in [Tasks -> 0..NumProcs]
    /\ status \in [Tasks -> {0, StatusOK, StatusServiceUnavailable}]
    /\ outcome \in [Tasks -> {"none", "skipped", "notneeded", "performed"}]
    /\ crashed \in BOOLEAN
    /\ hcLen \in 0..MaxProcesses
    /\ hcReach \in [ListIdx -> BOOLEAN]
    /\ hcI \in 0..(MaxProcesses + 1)
    /\ hcProbes \in [ListIdx -> Nat]
    /\ hcResult \in {"none", "true", "false"}
    /\ outProc \in {"none", "running", "exited", "reaped"}
    /\ outWritten \in [Streams -> 0..MaxLines]
    /\ outPipe \in [Streams -> 0..MaxLines]
    /\ outLogged \in [Streams -> 0..MaxLines]
    /\ outClosed \in [Streams -> BOOLEAN]
    /\ outReader \in [Streams -> {"none", "scanning", "done", "failed"}]
    /\ oldProc \in [Procs -> OsStates]
    /\ orphans \in [Procs -> 0..MaxLive]

\* No call of healthCheck is being followed on its own.
NoCheck ==
    /\ hcLen = 0
    /\ hcReach = [i \in ListIdx |-> FALSE]
    /\ hcI = 0
    /\ hcProbes = [i \in ListIdx |-> 0]
    /\ hcResult = "none"

\* No process instance's output is being followed.
NoOutput ==
    /\ outProc = "none"
    /\ outWritten = [s \in Streams |-> 0]
    /\ outPipe = [s \in Streams |-> 0]
    /\ outLogged = [s \in Streams |-> 0]
    /\ outClosed = [s \in Streams |-> FALSE]
    /\ outReader = [s \in Streams |-> "none"]

\* main(): the config is loaded, one watchProcess goroutine per process has been
\* launched (each is in startProcess's stagger sleep, no exec.Cmd built yet), the
\* health-check loop is in its interval sleep and no request is in flight.
Started ==
    /\ CmdObject = [p \in Procs |-> "nil"]
    /\ osProc = [p \in Procs |-> "none"]
    /\ listening = [p \in Procs |-> FALSE]
    /\ live = [p \in Procs |-> 0]
    /\ wpc = [p \in Procs |-> "start"]
    /\ waitLog = [p \in Procs |-> {}]
    /\ restartMutex = FALSE
    /\ pc = [t \in Tasks |-> IF t = LoopTask THEN "sleep" ELSE "idle"]
    /\ idx = [t \in Tasks |-> 0]
    /\ status = [t \in Tasks |-> 0]
    /\ outcome = [t \in Tasks |-> "none"]
    /\ crashed = FALSE
    /\ oldProc = [p \in Procs |-> "none"]
    /\ orphans = [p \in Procs |-> 0]

\* The whole state after main() has launched its goroutines.
Init == Started /\ NoCheck /\ NoOutput

----------------------------------------------------------------------------
(* The supervised OS processes (the environment).                          *)

\* A running process starts accepting connections on its port.
ProcListen(p) ==
    /\ ~crashed
    /\ osProc[p] = "running"
    /\ ~listening[p]
    /\ listening' = [listening EXCEPT ![p] = TRUE]
    /\ UNCHANGED <<CmdObject, osProc, live, dogVars, restartMutex, taskVars, crashed>>
    /\ UNCHANGED auxVars

\* A running process stops accepting connections (hangs) without exiting.
ProcUnlisten(p) ==
    /\ ~crashed
    /\ osProc[p] = "running"
    /\ listening[p]
    /\ listening' = [listening EXCEPT ![p] = FALSE]
    /\ UNCHANGED <<CmdObject, osProc, live, dogVars, restartMutex, taskVars, crashed>>
    /\ UNCHANGED auxVars

\* A running process ends on its own with exit code 0 or a non-zero code, or is
\* killed by a signal sent from outside the supervisor (an operator).
ProcTerminate(p) ==
    /\ ~crashed
    /\ osProc[p] = "running"
    /\ \E how \in Terminated :
          osProc' = [osProc EXCEPT ![p] = how]
    /\ listening' = [listening EXCEPT ![p] = FALSE]
    /\ UNCHANGED <<CmdObject, live, dogVars, restartMutex, taskVars, crashed>>
    /\ UNCHANGED auxVars

----------------------------------------------------------------------------
(* The watchdog: watchProcess, startProcess, Wait.                         *)

\* startProcess, lines 290-292: after the stagger sleep, process.CmdObject is
\* replaced by a fresh exec.Cmd, whose Process field is nil.
startProcess_Command(p) ==
    /\ ~crashed
    /\ wpc[p] = "start"
    /\ CmdObject' = [CmdObject EXCEPT ![p] = "noproc"]
    /\ osProc' = [osProc EXCEPT ![p] = "none"]
    /\ wpc' = [wpc EXCEPT ![p] = "spawn"]
    /\ UNCHANGED <<listening, live, waitLog, restartMutex, taskVars, crashed>>
    /\ UNCHANGED auxVars

\* startProcess, lines 294-314: StdoutPipe, StderrPipe and Start; each failure
\* returns with the Cmd's Process still nil, success sets Process to the new
\* OS process.
startProcess_Start(p) ==
    /\ ~crashed
    /\ wpc[p] = "spawn"
    /\ \E r \in SpawnResults :
          IF r = "ok"
          THEN /\ CmdObject' = [CmdObject EXCEPT ![p] = "proc"]
               /\ osProc' = [osProc EXCEPT ![p] = "running"]
               /\ live' = [live EXCEPT ![p] = @ + 1]
          ELSE UNCHANGED <<CmdObject, osProc, live>>
    /\ wpc' = [wpc EXCEPT ![p] = "wait"]
    /\ UNCHANGED <<listening, waitLog, restartMutex, taskVars, crashed>>
    /\ UNCHANGED auxVars

\* The lines (*Process).Wait logs for a wait status, lines 255-268: nil error ->
\* "completed successfully"; an ExitError -> "exited with code", and also
\* "terminated by signal" when the status is Signaled.
WaitLogOf(st) ==
    CASE st = "exit0" -> {"success"}
      [] st = "exitN" -> {"code"}
      [] st = "signaled" -> {"code", "signal"}
      [] OTHER -> {"error"}

\* Wait with a wait that does not block: it returns while the OS process is still
\* running, without reaping it.
Wait_NonBlocking(p) ==
    /\ ~crashed
    /\ wpc[p] = "wait"
    /\ IF CmdObject[p] # "proc" \/ osProc[p] = "running"
       THEN /\ waitLog' = [waitLog EXCEPT ![p] = {"error"}]
            /\ UNCHANGED <<osProc, live>>
       ELSE /\ osProc[p] \in Terminated
            /\ waitLog' = [waitLog EXCEPT ![p] = WaitLogOf(osProc[p])]
            /\ osProc' = [osProc EXCEPT ![p] = "reaped"]
            /\ live' = [live EXCEPT ![p] = @ - 1]
    /\ wpc' = [wpc EXCEPT ![p] = "exited"]
    /\ UNCHANGED <<CmdObject, listening, restartMutex, taskVars, crashed>>
    /\ UNCHANGED auxVars

\* Wait restarting the whole fleet on a termination: the watchdog that observes
\* the exit of its process kills every other running process.
Wait_RestartAll(p) ==
    /\ ~crashed
    /\ wpc[p] = "wait"
    /\ IF CmdObject[p] # "proc"
       THEN /\ waitLog' = [waitLog EXCEPT ![p] = {"error"}]
            /\ UNCHANGED <<osProc, live, listening>>
       ELSE /\ osProc[p] \in Terminated
            /\ \E failed \in BOOLEAN :
                  waitLog' = [waitLog EXCEPT ![p] =
                                 IF failed THEN {"error"} ELSE WaitLogOf(osProc[p])]
            /\ osProc' = [q \in Procs |->
                            IF q = p THEN "reaped"
                            ELSE IF osProc[q] = "running" THEN "signaled" ELSE osProc[q]]
            /\ listening' = [q \in Procs |-> FALSE]
            /\ live' = [live EXCEPT ![p] = @ - 1]
    /\ wpc' = [wpc EXCEPT ![p] = "exited"]
    /\ UNCHANGED <<CmdObject, restartMutex, taskVars, crashed>>
    /\ UNCHANGED auxVars

\* (*Process).Wait, lines 252-269.  CmdObject.Wait() returns at once with
\* "exec: not started" when the Cmd has no Process; otherwise it blocks until the
\* OS process has terminated, reaps it, and returns nil, an ExitError, or another
\* error (the wait itself failed after the process ended).
Wait(p) ==
    /\ ~crashed
    /\ wpc[p] = "wait"
    /\ IF CmdObject[p] # "proc"
       THEN /\ waitLog' = [waitLog EXCEPT ![p] = {"error"}]
            /\ UNCHANGED <<osProc, live>>
       ELSE /\ osProc[p] \in Terminated
            /\ \E failed \in BOOLEAN :
                  waitLog' = [waitLog EXCEPT ![p] =
                                 IF failed THEN {"error"} ELSE WaitLogOf(osProc[p])]
            /\ osProc' = [osProc EXCEPT ![p] = "reaped"]
            /\ live' = [live EXCEPT ![p] = @ - 1]
    /\ wpc' = [wpc EXCEPT ![p] = "exited"]
    /\ UNCHANGED <<CmdObject, listening, restartMutex, taskVars, crashed>>
    /\ UNCHANGED auxVars

\* watchProcess_Loop restarting the whole fleet when one process has exited: the
\* watchdog that observed the exit kills every other running process.
watchProcess_Loop_StopAll(p) ==
    /\ ~crashed
    /\ wpc[p] = "exited"
    /\ wpc' = [wpc EXCEPT ![p] = "start"]
    /\ waitLog' = [waitLog EXCEPT ![p] = {}]
    /\ osProc' = [q \in Procs |->
                    IF q # p /\ osProc[q] = "running" THEN "signaled" ELSE osProc[q]]
    /\ listening' = [q \in Procs |-> listening[q] /\ q = p]
    /\ UNCHANGED <<CmdObject, live, restartMutex, taskVars, crashed>>
    /\ UNCHANGED auxVars

\* watchProcess, lines 272-276: after Wait returns, log and loop back to
\* startProcess, whatever Wait saw.
watchProcess_Loop(p) ==
    /\ ~crashed
    /\ wpc[p] = "exited"
    /\ wpc' = [wpc EXCEPT ![p] = "start"]
    /\ waitLog' = [waitLog EXCEPT ![p] = {}]
    /\ UNCHANGED <<procVars, restartMutex, taskVars, crashed>>
    /\ UNCHANGED auxVars

watchProcess(p) ==
    \/ startProcess_Command(p)
    \/ startProcess_Start(p)
    \/ Wait(p)
    \/ watchProcess_Loop(p)

----------------------------------------------------------------------------
(* restartMutex, healthCheck, stopProcess, restartProcesses.               *)

\* Holder of restartMutex by program position: the goroutine is between its
\* successful TryLock and its Unlock.
Holds(t) ==
    IF t = LoopTask
    THEN pc[t] \in {"stop", "kill", "unlock"}
    ELSE t \in RestartTasks /\ pc[t] \in {"check", "stop", "kill", "unlock"}

\* The goroutine is inside restartProcesses (the stop sequence).
InStopSequence(t) == t \in GateTasks /\ pc[t] \in {"stop", "kill"}

\* canConnectToProcess, lines 327-338: a TCP connect to 127.0.0.1:Port with a
\* 2 s timeout; any error is false.
canConnectToProcess(p) == listening[p]

\* restartMutex.Unlock(): unlocking an unlocked sync.Mutex is a fatal runtime
\* error that ends the program.
Unlock ==
    IF restartMutex
    THEN restartMutex' = FALSE /\ crashed' = crashed
    ELSE restartMutex' = restartMutex /\ crashed' = TRUE

\* A nil-pointer panic in goroutine t.  In the health-check loop goroutine nothing
\* recovers it and the whole program exits.  In a handler goroutine the deferred
\* restartMutex.Unlock() (line 394) runs and net/http recovers the panic: the
\* request is aborted without a status and the server keeps running.
Panic(t) ==
    IF t = LoopTask
    THEN /\ crashed' = TRUE
         /\ UNCHANGED <<restartMutex, taskVars>>
    ELSE /\ Unlock
         /\ pc' = [pc EXCEPT ![t] = "idle"]
         /\ idx' = [idx EXCEPT ![t] = 0]
         /\ UNCHANGED <<status, outcome>>

\* restartProcesses, lines 368-371, and what follows it in the caller: after
\* stopProcess of process i the loop goes on to i+1; after the last one the loop
\* goroutine goes to restartMutex.Unlock() (line 362) and the handler writes 200
\* (lines 403-404) and returns into its deferred Unlock.
restartProcesses_Next(t) ==
    IF idx[t] < NumProcs
    THEN /\ pc' = [pc EXCEPT ![t] = "stop"]
         /\ idx' = [idx EXCEPT ![t] = @ + 1]
         /\ UNCHANGED <<status, outcome>>
    ELSE /\ pc' = [pc EXCEPT ![t] = "unlock"]
         /\ idx' = [idx EXCEPT ![t] = 0]
         /\ status' = [status EXCEPT ![t] = IF t = LoopTask THEN @ ELSE StatusOK]
         /\ outcome' = [outcome EXCEPT ![t] = IF t = LoopTask THEN @ ELSE "performed"]

\* stopProcess, line 280: the argument process.CmdObject.Process.Pid of the log
\* call is evaluated before anything else, whatever the log level; it
\* dereferences CmdObject and CmdObject.Process, so it panics when either is nil.
stopProcess_Log(t) ==
    /\ ~crashed
    /\ InStopSequence(t)
    /\ pc[t] = "stop"
    /\ IF CmdObject[idx[t]] = "proc"
       THEN /\ pc' = [pc EXCEPT ![t] = "kill"]
            /\ UNCHANGED <<idx, status, outcome, restartMutex, crashed>>
       ELSE Panic(t)
    /\ UNCHANGED <<procVars, dogVars>>
    /\ UNCHANGED auxVars

\* Kill followed by a start of the process by the coordinator itself (the
\* stop-then-start restartProcesses of src/main.go, lines 430-435).
Kill_AndStart(p) ==
    /\ osProc' = [osProc EXCEPT ![p] = "running"]
    /\ listening' = [listening EXCEPT ![p] = FALSE]
    /\ CmdObject' = [CmdObject EXCEPT ![p] = "proc"]
    /\ live' = [live EXCEPT ![p] = @ + 1]

\* (*os.Process).Kill() on the handle's current OS process: SIGKILL ends a
\* running process; on a process that has already terminated the call returns an
\* error, which stopProcess ignores.
Kill(p) ==
    /\ osProc' = [osProc EXCEPT ![p] = IF @ = "running" THEN "signaled" ELSE @]
    /\ listening' = [listening EXCEPT ![p] = FALSE]
    /\ UNCHANGED <<CmdObject, live>>

\* stopProcess, lines 281-286: process.CmdObject is read again (the watchdog may
\* have replaced it since line 280); nil takes the "is not running" branch, a Cmd
\* without Process panics inside Kill, otherwise the OS process is killed.
stopProcess_Kill(t) ==
    /\ ~crashed
    /\ InStopSequence(t)
    /\ pc[t] = "kill"
    /\ CASE CmdObject[idx[t]] = "proc" ->
              /\ Kill(idx[t])
              /\ restartProcesses_Next(t)
              /\ UNCHANGED <<restartMutex, crashed>>
         [] CmdObject[idx[t]] = "nil" ->
              /\ restartProcesses_Next(t)
              /\ UNCHANGED <<procVars, restartMutex, crashed>>
         [] OTHER ->
              /\ Panic(t)
              /\ UNCHANGED procVars
    /\ UNCHANGED dogVars
    /\ UNCHANGED auxVars

restartProcesses(t) ==
    \/ stopProcess_Log(t)
    \/ stopProcess_Kill(t)

----------------------------------------------------------------------------
(* healthCheckLoop.                                                        *)

\* healthCheckLoop, lines 351-352: the interval sleep ends and healthCheck starts
\* with process 0 of the list.
healthCheckLoop_Wake ==
    /\ ~crashed
    /\ pc[LoopTask] = "sleep"
    /\ pc' = [pc EXCEPT ![LoopTask] = "check"]
    /\ idx' = [idx EXCEPT ![LoopTask] = 1]
    /\ UNCHANGED <<procVars, dogVars, restartMutex, status, outcome, crashed>>
    /\ UNCHANGED auxVars

\* healthCheckLoop_Check without the `continue` of line 353: a cycle whose
\* healthCheck returned true goes on to the TryLock as well.
healthCheckLoop_Check_NoContinue ==
    /\ ~crashed
    /\ pc[LoopTask] = "check"
    /\ IF canConnectToProcess(idx[LoopTask]) /\ idx[LoopTask] < NumProcs
       THEN /\ idx' = [idx EXCEPT ![LoopTask] = @ + 1]
            /\ pc' = pc
       ELSE /\ idx' = [idx EXCEPT ![LoopTask] = 0]
            /\ pc' = [pc EXCEPT ![LoopTask] = "trylock"]
    /\ UNCHANGED <<procVars, dogVars, restartMutex, status, outcome, crashed>>
    /\ UNCHANGED auxVars

\* healthCheck (lines 340-347) called at line 352: one probe per step, in list
\* order; the first failure returns false (line 355, on to TryLock), the last
\* success returns true (line 353, back to the sleep).
healthCheckLoop_Check ==
    /\ ~crashed
    /\ pc[LoopTask] = "check"
    /\ IF canConnectToProcess(idx[LoopTask])
       THEN IF idx[LoopTask] < NumProcs
            THEN /\ idx' = [idx EXCEPT ![LoopTask] = @ + 1]
                 /\ pc' = pc
            ELSE /\ idx' = [idx EXCEPT ![LoopTask] = 0]
                 /\ pc' = [pc EXCEPT ![LoopTask] = "sleep"]
       ELSE /\ idx' = [idx EXCEPT ![LoopTask] = 0]
            /\ pc' = [pc EXCEPT ![LoopTask] = "trylock"]
    /\ UNCHANGED <<procVars, dogVars, restartMutex, status, outcome, crashed>>
    /\ UNCHANGED auxVars

\* healthCheckLoop_TryLock without the `continue` of line 358: a failed TryLock
\* falls through to the Unlock of line 362.
healthCheckLoop_TryLock_NoContinue ==
    /\ ~crashed
    /\ pc[LoopTask] = "trylock"
    /\ IF restartMutex
       THEN /\ pc' = [pc EXCEPT ![LoopTask] = "unlock"]
            /\ UNCHANGED <<restartMutex, idx>>
       ELSE /\ restartMutex' = TRUE
            /\ pc' = [pc EXCEPT ![LoopTask] = "stop"]
            /\ idx' = [idx EXCEPT ![LoopTask] = 1]
    /\ UNCHANGED <<procVars, dogVars, status, outcome, crashed>>
    /\ UNCHANGED auxVars

\* healthCheckLoop, lines 356-361: TryLock; when the mutex is held, log and
\* `continue` (back to the sleep, skipping the Unlock of line 362); when it is
\* acquired, call restartProcesses at once.
healthCheckLoop_TryLock ==
    /\ ~crashed
    /\ pc[LoopTask] = "trylock"
    /\ IF restartMutex
       THEN /\ pc' = [pc EXCEPT ![LoopTask] = "sleep"]
            /\ UNCHANGED <<restartMutex, idx>>
       ELSE /\ restartMutex' = TRUE
            /\ pc' = [pc EXCEPT ![LoopTask] = "stop"]
            /\ idx' = [idx EXCEPT ![LoopTask] = 1]
    /\ UNCHANGED <<procVars, dogVars, status, outcome, crashed>>
    /\ UNCHANGED auxVars

\* healthCheckLoop, line 362: restartMutex.Unlock() after restartProcesses.
healthCheckLoop_Unlock ==
    /\ ~crashed
    /\ pc[LoopTask] = "unlock"
    /\ Unlock
    /\ pc' = [pc EXCEPT ![LoopTask] = "sleep"]
    /\ UNCHANGED <<procVars, dogVars, idx, status, outcome>>
    /\ UNCHANGED auxVars

healthCheckLoop ==
    \/ healthCheckLoop_Wake
    \/ healthCheckLoop_Check
    \/ healthCheckLoop_TryLock
    \/ healthCheckLoop_Unlock
    \/ restartProcesses(LoopTask)

----------------------------------------------------------------------------
(* restartHandler (POST /restart).                                         *)

\* restartHandler_TryLock without the `return` of line 392: a skipped request
\* writes 503 and goes on to healthCheck without the mutex.
restartHandler_TryLock_NoReturn(t) ==
    /\ ~crashed
    /\ t \in RestartTasks
    /\ pc[t] = "idle"
    /\ IF restartMutex
       THEN /\ status' = [status EXCEPT ![t] = StatusServiceUnavailable]
            /\ outcome' = [outcome EXCEPT ![t] = "skipped"]
            /\ UNCHANGED restartMutex
       ELSE /\ restartMutex' = TRUE
            /\ UNCHANGED <<status, outcome>>
    /\ pc' = [pc EXCEPT ![t] = "check"]
    /\ idx' = [idx EXCEPT ![t] = 1]
    /\ UNCHANGED <<procVars, dogVars, crashed>>
    /\ UNCHANGED auxVars

\* restartHandler_TryLock with restartMutex.Lock() in place of TryLock: the
\* handler waits for the mutex.
restartHandler_TryLock_Blocking(t) ==
    /\ ~crashed
    /\ t \in RestartTasks
    /\ pc[t] = "idle"
    /\ ~restartMutex
    /\ restartMutex' = TRUE
    /\ pc' = [pc EXCEPT ![t] = "check"]
    /\ idx' = [idx EXCEPT ![t] = 1]
    /\ UNCHANGED <<procVars, dogVars, status, outcome, crashed>>
    /\ UNCHANGED auxVars

\* restartHandler_TryLock with the `defer restartMutex.Unlock()` of line 394
\* placed before the TryLock: the return of a skipped request unlocks the mutex
\* another goroutine holds.
restartHandler_TryLock_DeferFirst(t) ==
    /\ ~crashed
    /\ t \in RestartTasks
    /\ pc[t] = "idle"
    /\ IF restartMutex
       THEN /\ pc' = [pc EXCEPT ![t] = "return"]
            /\ status' = [status EXCEPT ![t] = StatusServiceUnavailable]
            /\ outcome' = [outcome EXCEPT ![t] = "skipped"]
            /\ restartMutex' = FALSE
            /\ UNCHANGED idx
       ELSE /\ restartMutex' = TRUE
            /\ pc' = [pc EXCEPT ![t] = "check"]
            /\ idx' = [idx EXCEPT ![t] = 1]
            /\ UNCHANGED <<status, outcome>>
    /\ UNCHANGED <<procVars, dogVars, crashed>>
    /\ UNCHANGED auxVars

\* restartHandler, lines 387-394: a request arrives and the handler calls
\* TryLock.  Mutex held: write 503 and return.  Acquired: defer the Unlock and
\* call healthCheck.
restartHandler_TryLock(t) ==
    /\ ~crashed
    /\ t \in RestartTasks
    /\ pc[t] = "idle"
    /\ IF restartMutex
       THEN /\ pc' = [pc EXCEPT ![t] = "return"]
            /\ status' = [status EXCEPT ![t] = StatusServiceUnavailable]
            /\ outcome' = [outcome EXCEPT ![t] = "skipped"]
            /\ UNCHANGED <<restartMutex, idx>>
       ELSE /\ restartMutex' = TRUE
            /\ pc' = [pc EXCEPT ![t] = "check"]
            /\ idx' = [idx EXCEPT ![t] = 1]
            /\ UNCHANGED <<status, outcome>>
    /\ UNCHANGED <<procVars, dogVars, crashed>>
    /\ UNCHANGED auxVars

\* restartHandler_Check with the result of healthCheck ignored: the processes
\* are restarted even when every probe succeeded.
restartHandler_Check_AlwaysRestart(t) ==
    /\ ~crashed
    /\ t \in RestartTasks
    /\ pc[t] = "check"
    /\ IF canConnectToProcess(idx[t]) /\ idx[t] < NumProcs
       THEN /\ idx' = [idx EXCEPT ![t] = @ + 1]
            /\ UNCHANGED pc
       ELSE /\ idx' = [idx EXCEPT ![t] = 1]
            /\ pc' = [pc EXCEPT ![t] = "stop"]
    /\ UNCHANGED <<procVars, dogVars, restartMutex, status, outcome, crashed>>
    /\ UNCHANGED auxVars

\* restartHandler, lines 396-402: healthCheck under the mutex, one probe per
\* step.  True: write 200 and return (into the deferred Unlock) without stopping
\* anything.  False: call restartProcesses.
restartHandler_Check(t) ==
    /\ ~crashed
    /\ t \in RestartTasks
    /\ pc[t] = "check"
    /\ IF canConnectToProcess(idx[t])
       THEN IF idx[t] < NumProcs
            THEN /\ idx' = [idx EXCEPT ![t] = @ + 1]
                 /\ UNCHANGED <<pc, status, outcome>>
            ELSE /\ idx' = [idx EXCEPT ![t] = 0]
                 /\ pc' = [pc EXCEPT ![t] = "unlock"]
                 /\ status' = [status EXCEPT ![t] = StatusOK]
                 /\ outcome' = [outcome EXCEPT ![t] = "notneeded"]
       ELSE /\ idx' = [idx EXCEPT ![t] = 1]
            /\ pc' = [pc EXCEPT ![t] = "stop"]
            /\ UNCHANGED <<status, outcome>>
    /\ UNCHANGED <<procVars, dogVars, restartMutex, crashed>>
    /\ UNCHANGED auxVars

\* restartHandler, line 394 at return: the deferred restartMutex.Unlock(); the
\* response is complete and the handler goroutine is free for another request.
restartHandler_Unlock(t) ==
    /\ ~crashed
    /\ t \in RestartTasks
    /\ pc[t] = "unlock"
    /\ Unlock
    /\ pc' = [pc EXCEPT ![t] = "idle"]
    /\ status' = [status EXCEPT ![t] = 0]
    /\ outcome' = [outcome EXCEPT ![t] = "none"]
    /\ UNCHANGED <<procVars, dogVars, idx>>
    /\ UNCHANGED auxVars

\* restartHandler, line 392: the return of a skipped request (no Unlock has been
\* deferred yet); the 503 response is complete.
restartHandler_Return(t) ==
    /\ ~crashed
    /\ t \in RestartTasks
    /\ pc[t] = "return"
    /\ pc' = [pc EXCEPT ![t] = "idle"]
    /\ status' = [status EXCEPT ![t] = 0]
    /\ outcome' = [outcome EXCEPT ![t] = "none"]
    /\ UNCHANGED <<procVars, dogVars, restartMutex, idx, crashed>>
    /\ UNCHANGED auxVars

restartHandler(t) ==
    \/ restartHandler_TryLock(t)
    \/ restartHandler_Check(t)
    \/ restartHandler_Unlock(t)
    \/ restartHandler_Return(t)
    \/ restartProcesses(t)

----------------------------------------------------------------------------
(* healthCheckHandler (GET /health).                                       *)

\* healthCheckHandler, lines 377-378: a request arrives and healthCheck starts.
healthCheckHandler_Begin(t) ==
    /\ ~crashed
    /\ t \in HealthTasks
    /\ pc[t] = "idle"
    /\ pc' = [pc EXCEPT ![t] = "check"]
    /\ idx' = [idx EXCEPT ![t] = 1]
    /\ UNCHANGED <<procVars, dogVars, restartMutex, status, outcome, crashed>>
    /\ UNCHANGED auxVars

\* healthCheckHandler_Check with the branches of line 378 exchanged: 503 when
\* healthCheck returns true, 200 when it returns false.
healthCheckHandler_Check_Inverted(t) ==
    /\ ~crashed
    /\ t \in HealthTasks
    /\ pc[t] = "check"
    /\ IF canConnectToProcess(idx[t])
       THEN IF idx[t] < NumProcs
            THEN /\ idx' = [idx EXCEPT ![t] = @ + 1]
                 /\ UNCHANGED <<pc, status>>
            ELSE /\ idx' = [idx EXCEPT ![t] = 0]
                 /\ pc' = [pc EXCEPT ![t] = "return"]
                 /\ status' = [status EXCEPT ![t] = StatusServiceUnavailable]
       ELSE /\ idx' = [idx EXCEPT ![t] = 0]
            /\ pc' = [pc EXCEPT ![t] = "return"]
            /\ status' = [status EXCEPT ![t] = StatusOK]
    /\ UNCHANGED <<procVars, dogVars, restartMutex, outcome, crashed>>
    /\ UNCHANGED auxVars

\* healthCheckHandler, lines 378-382: healthCheck, one probe per step; true
\* writes 200, false writes 503.
healthCheckHandler_Check(t) ==
    /\ ~crashed
    /\ t \in HealthTasks
    /\ pc[t] = "check"
    /\ IF canConnectToProcess(idx[t])
       THEN IF idx[t] < NumProcs
            THEN /\ idx' = [idx EXCEPT ![t] = @ + 1]
                 /\ UNCHANGED <<pc, status>>
            ELSE /\ idx' = [idx EXCEPT ![t] = 0]
                 /\ pc' = [pc EXCEPT ![t] = "return"]
                 /\ status' = [status EXCEPT ![t] = StatusOK]
       ELSE /\ idx' = [idx EXCEPT ![t] = 0]
            /\ pc' = [pc EXCEPT ![t] = "return"]
            /\ status' = [status EXCEPT ![t] = StatusServiceUnavailable]
    /\ UNCHANGED <<procVars, dogVars, restartMutex, outcome, crashed>>
    /\ UNCHANGED auxVars

\* healthCheckHandler, line 383: the handler returns; the response is complete.
healthCheckHandler_Return(t) ==
    /\ ~crashed
    /\ t \in HealthTasks
    /\ pc[t] = "return"
    /\ pc' = [pc EXCEPT ![t] = "idle"]
    /\ status' = [status EXCEPT ![t] = 0]
    /\ UNCHANGED <<procVars, dogVars, restartMutex, idx, outcome, crashed>>
    /\ UNCHANGED auxVars

healthCheckHandler(t) ==
    \/ healthCheckHandler_Begin(t)
    \/ healthCheckHandler_Check(t)
    \/ healthCheckHandler_Return(t)

----------------------------------------------------------------------------
(* healthCheck taken on its own: one call, on a process list of any length *)
(* up to MaxProcesses and any assignment of reachable ports, which stays   *)
(* the same during the call.                                               *)

\* A call of healthCheck starts: i := 0 (line 341), on any list and assignment.
\* Ports beyond the end of the list do not matter and are taken unreachable.
healthCheck_Call ==
    /\ hcLen \in 0..MaxProcesses
    /\ hcReach \in [ListIdx -> BOOLEAN]
    /\ \A i \in ListIdx : i > hcLen => ~hcReach[i]
    /\ hcI = 1
    /\ hcProbes = [i \in ListIdx |-> 0]
    /\ hcResult = "none"

\* healthCheck without the `return false` of line 343: a failed probe is
\* ignored and the loop goes on.
healthCheck_Step_NoReturn ==
    /\ hcI >= 1
    /\ hcResult = "none"
    /\ IF hcI <= hcLen
       THEN /\ hcProbes' = [hcProbes EXCEPT ![hcI] = @ + 1]
            /\ hcI' = hcI + 1
            /\ UNCHANGED hcResult
       ELSE /\ hcResult' = "true"
            /\ UNCHANGED <<hcI, hcProbes>>
    /\ UNCHANGED <<hcLen, hcReach, outVars, coreVars, variantVars>>

\* healthCheck, lines 341-346: one iteration of the for loop.  While
\* i < len(config.Processes), Processes[i].canConnectToProcess() is called; false
\* returns false at once, true goes on with i+1.  When the loop ends, return
\* true.
healthCheck_Step ==
    /\ hcI >= 1
    /\ hcResult = "none"
    /\ IF hcI <= hcLen
       THEN /\ hcProbes' = [hcProbes EXCEPT ![hcI] = @ + 1]
            /\ IF hcReach[hcI]
               THEN hcI' = hcI + 1 /\ UNCHANGED hcResult
               ELSE hcResult' = "false" /\ UNCHANGED hcI
       ELSE /\ hcResult' = "true"
            /\ UNCHANGED <<hcI, hcProbes>>
    /\ UNCHANGED <<hcLen, hcReach, outVars, coreVars, variantVars>>

----------------------------------------------------------------------------
(* One run of one process instance: its two output pipes, the two          *)
(* captureOutput goroutines and the watchdog's Wait on the instance.       *)

\* startProcess, lines 294-312, has returned: the instance is running, the
\* supervisor holds the read ends of its stdout and stderr pipes and one
\* captureOutput goroutine scans each.
captureOutput_Launched ==
    /\ outProc = "running"
    /\ outWritten = [s \in Streams |-> 0]
    /\ outPipe = [s \in Streams |-> 0]
    /\ outLogged = [s \in Streams |-> 0]
    /\ outClosed = [s \in Streams |-> FALSE]
    /\ outReader = [s \in Streams |-> "scanning"]

\* The running instance writes one line to stream s; the line sits in the pipe
\* until it is read.
Instance_WriteLine(s) ==
    /\ outProc = "running"
    /\ outWritten[s] < MaxLines
    /\ outWritten' = [outWritten EXCEPT ![s] = @ + 1]
    /\ outPipe' = [outPipe EXCEPT ![s] = @ + 1]
    /\ UNCHANGED <<outProc, outLogged, outClosed, outReader, checkVars, coreVars, variantVars>>

\* The instance exits (or is killed): the write ends of its pipes are closed,
\* what it wrote stays in the pipes.
Instance_Exit ==
    /\ outProc = "running"
    /\ outProc' = "exited"
    /\ UNCHANGED <<outWritten, outPipe, outLogged, outClosed, outReader, checkVars,
                   coreVars, variantVars>>

\* captureOutput, lines 317-325: one scanner.Scan().  A read on a read end that
\* has been closed fails (scanner.Err() is not nil, line 322) and the goroutine
\* ends without reading what the pipe still held; otherwise the next line of
\* the pipe is logged (line 320); on an empty pipe the read blocks while the
\* instance is running and is the end of the stream once it has exited.
captureOutput(s) ==
    /\ outReader[s] = "scanning"
    /\ IF outClosed[s]
       THEN /\ outReader' = [outReader EXCEPT ![s] = "failed"]
            /\ UNCHANGED <<outPipe, outLogged>>
       ELSE IF outPipe[s] > 0
            THEN /\ outPipe' = [outPipe EXCEPT ![s] = @ - 1]
                 /\ outLogged' = [outLogged EXCEPT ![s] = @ + 1]
                 /\ UNCHANGED outReader
            ELSE /\ outProc # "running"
                 /\ outReader' = [outReader EXCEPT ![s] = "done"]
                 /\ UNCHANGED <<outPipe, outLogged>>
    /\ UNCHANGED <<outProc, outWritten, outClosed, checkVars, coreVars, variantVars>>

\* (*Process).Wait, line 254, on the instance: CmdObject.Wait() returns once the
\* instance has exited, reaps it and closes the read ends that StdoutPipe and
\* StderrPipe handed out, whether or not the captureOutput goroutines have read
\* everything.
Wait_ClosePipes ==
    /\ outProc = "exited"
    /\ outProc' = "reaped"
    /\ outClosed' = [s \in Streams |-> TRUE]
    /\ UNCHANGED <<outWritten, outPipe, outLogged, outReader, checkVars, coreVars, variantVars>>

----------------------------------------------------------------------------
(* The variant of src/main.go, lines 250-497: restartProcesses stops each  *)
(* process and starts it again itself, while the process's watchdog keeps  *)
(* looping startProcess / Wait.  startProcess has no stagger sleep before  *)
(* the exec.Cmd (it sleeps after a successful Start).                      *)

\* startProcess of the variant, line 381: process.CmdObject is replaced by a
\* fresh exec.Cmd.  The OS process of the replaced Cmd is not affected; when the
\* handle's watchdog is blocked in Wait on the replaced Cmd it keeps waiting on
\* that Cmd's process, and otherwise no goroutine refers to a replaced Cmd
\* again: its process, if running, is an orphan.
StopStart_Command(p) ==
    /\ CmdObject' = [CmdObject EXCEPT ![p] = "noproc"]
    /\ osProc' = [osProc EXCEPT ![p] = "none"]
    /\ oldProc' = [oldProc EXCEPT ![p] =
                      IF wpc[p] = "wait" /\ CmdObject[p] = "proc" /\ @ = "none"
                      THEN osProc[p] ELSE @]
    /\ orphans' = [orphans EXCEPT ![p] =
                      IF osProc[p] = "running"
                         /\ ~(wpc[p] = "wait" /\ oldProc[p] = "none")
                      THEN @ + 1 ELSE @]
    /\ UNCHANGED <<listening, live>>

\* startProcess of the variant, lines 382-387: process.CmdObject.Start() on the
\* Cmd the field holds now.  A Cmd that has been started already (by the other
\* goroutine) gives an error, as does a failed spawn; otherwise a new OS process
\* is running.
StopStart_Start(p) ==
    /\ \E ok \in BOOLEAN :
          IF ok /\ CmdObject[p] = "noproc" /\ live[p] < MaxLive
          THEN /\ CmdObject' = [CmdObject EXCEPT ![p] = "proc"]
               /\ osProc' = [osProc EXCEPT ![p] = "running"]
               /\ live' = [live EXCEPT ![p] = @ + 1]
          ELSE UNCHANGED <<CmdObject, osProc, live>>
    /\ UNCHANGED <<listening, oldProc, orphans>>

\* watchProcess of the variant, line 363, first half of startProcess.
StopStart_watchProcess_Command(p) ==
    /\ ~crashed
    /\ wpc[p] = "start"
    /\ StopStart_Command(p)
    /\ wpc' = [wpc EXCEPT ![p] = "spawn"]
    /\ UNCHANGED <<waitLog, restartMutex, taskVars, crashed, checkVars, outVars>>

\* watchProcess of the variant, line 363, second half of startProcess.
StopStart_watchProcess_Start(p) ==
    /\ ~crashed
    /\ wpc[p] = "spawn"
    /\ StopStart_Start(p)
    /\ wpc' = [wpc EXCEPT ![p] = "wait"]
    /\ UNCHANGED <<waitLog, restartMutex, taskVars, crashed, checkVars, outVars>>

\* (*Process).Wait of the variant, lines 342-359: CmdObject.Wait() on the Cmd
\* the watchdog read when it called Wait, which is the replaced one when
\* restartProcesses has started the process in the meantime.
StopStart_Wait(p) ==
    /\ ~crashed
    /\ wpc[p] = "wait"
    /\ IF oldProc[p] # "none"
       THEN /\ oldProc[p] \in Terminated
            /\ waitLog' = [waitLog EXCEPT ![p] = WaitLogOf(oldProc[p])]
            /\ oldProc' = [oldProc EXCEPT ![p] = "none"]
            /\ live' = [live EXCEPT ![p] = @ - 1]
            /\ UNCHANGED <<osProc, orphans>>
       ELSE IF CmdObject[p] # "proc"
            THEN /\ waitLog' = [waitLog EXCEPT ![p] = {"error"}]
                 /\ UNCHANGED <<osProc, live, oldProc, orphans>>
            ELSE /\ osProc[p] \in Terminated
                 /\ waitLog' = [waitLog EXCEPT ![p] = WaitLogOf(osProc[p])]
                 /\ osProc' = [osProc EXCEPT ![p] = "reaped"]
                 /\ live' = [live EXCEPT ![p] = @ - 1]
                 /\ UNCHANGED <<oldProc, orphans>>
    /\ wpc' = [wpc EXCEPT ![p] = "exited"]
    /\ UNCHANGED <<CmdObject, listening, restartMutex, taskVars, crashed, checkVars,
                   outVars>>

\* The OS process of a replaced Cmd ends (it has been killed, or exits).
StopStart_OldTerminate(p) ==
    /\ ~crashed
    /\ oldProc[p] = "running"
    /\ \E how \in Terminated : oldProc' = [oldProc EXCEPT ![p] = how]
    /\ UNCHANGED <<coreVars, checkVars, outVars, orphans>>

\* stopProcess of the variant, lines 371-376, called at line 432: as lines
\* 281-286 of the current program, and then on to startProcess (line 433).
StopStart_stopProcess_Kill(t) ==
    /\ ~crashed
    /\ t \in GateTasks
    /\ pc[t] = "kill"
    /\ CASE CmdObject[idx[t]] = "proc" ->
              /\ Kill(idx[t])
              /\ pc' = [pc EXCEPT ![t] = "command"]
              /\ UNCHANGED <<idx, status, outcome, restartMutex, crashed>>
         [] CmdObject[idx[t]] = "nil" ->
              /\ pc' = [pc EXCEPT ![t] = "command"]
              /\ UNCHANGED <<procVars, idx, status, outcome, restartMutex, crashed>>
         [] OTHER ->
              /\ Panic(t)
              /\ UNCHANGED procVars
    /\ UNCHANGED <<dogVars, auxVars>>

\* restartProcesses of the variant, line 433, first half of startProcess.
StopStart_restartProcesses_Command(t) ==
    /\ ~crashed
    /\ t \in GateTasks
    /\ pc[t] = "command"
    /\ StopStart_Command(idx[t])
    /\ pc' = [pc EXCEPT ![t] = "start"]
    /\ UNCHANGED <<dogVars, restartMutex, idx, status, outcome, crashed, checkVars,
                   outVars>>

\* restartProcesses of the variant, line 433, second half of startProcess, and
\* the loop of lines 431-434 going on to the next process.
StopStart_restartProcesses_Start(t) ==
    /\ ~crashed
    /\ t \in GateTasks
    /\ pc[t] = "start"
    /\ StopStart_Start(idx[t])
    /\ restartProcesses_Next(t)
    /\ UNCHANGED <<dogVars, restartMutex, crashed, checkVars, outVars>>

----------------------------------------------------------------------------
(* The program.                                                            *)

Environment ==
    \E p \in Procs : ProcListen(p) \/ ProcUnlisten(p) \/ ProcTerminate(p)

\* main(), lines 418-424, and the /restart route of lines 428-430: the watchdogs,
\* the health-check loop and the restart handlers, all running concurrently (no
\* /health request in flight).
NextCore ==
    \/ \E p \in Procs : watchProcess(p)
    \/ healthCheckLoop
    \/ \E t \in RestartTasks : restartHandler(t)
    \/ Environment

\* main(), lines 418-432: the whole program, with the /health route as well.
Next ==
    \/ NextCore
    \/ \E t \in HealthTasks : healthCheckHandler(t)

\* The whole program.
Spec == Init /\ [][Next]_vars

\* The program while no /health request is served.  A /health request only reads
\* the ports (healthCheckHandler changes pc, idx and status of its own goroutine
\* and nothing else), so it cannot change what the other goroutines do.
SpecCore == Init /\ [][NextCore]_vars

\* One call of healthCheck, on every process list and every assignment.
\* main(), lines 418-420 and 427: the watchdogs and the /health route, while
\* neither the health-check loop nor a /restart request is at work.
NextHealth ==
    \/ \E p \in Procs : watchProcess(p)
    \/ \E t \in HealthTasks : healthCheckHandler(t)
    \/ Environment

SpecHealth == Init /\ [][NextHealth]_vars

\* The variant of src/main.go, lines 471-495: the watchdogs and the /restart
\* route, with the stop-then-start restartProcesses.
NextStopStart ==
    \/ \E p \in Procs :
          \/ StopStart_watchProcess_Command(p)
          \/ StopStart_watchProcess_Start(p)
          \/ StopStart_Wait(p)
          \/ watchProcess_Loop(p)
          \/ StopStart_OldTerminate(p)
    \/ \E t \in RestartTasks :
          \/ restartHandler_TryLock(t)
          \/ restartHandler_Check(t)
          \/ restartHandler_Unlock(t)
          \/ restartHandler_Return(t)
          \/ stopProcess_Log(t)
          \/ StopStart_stopProcess_Kill(t)
          \/ StopStart_restartProcesses_Command(t)
          \/ StopStart_restartProcesses_Start(t)
    \/ Environment

SpecStopStart == Init /\ [][NextStopStart]_vars

\* One run of one process instance with its output capture, from the return of
\* startProcess on.
InitOutput == Started /\ NoCheck /\ captureOutput_Launched

NextOutput ==
    \/ \E s \in Streams : Instance_WriteLine(s)
    \/ Instance_Exit
    \/ \E s \in Streams : captureOutput(s)
    \/ Wait_ClosePipes

SpecOutput == InitOutput /\ [][NextOutput]_vars

InitHealthCheck == Started /\ NoOutput /\ healthCheck_Call

SpecHealthCheck == InitHealthCheck /\ [][healthCheck_Step]_vars

----------------------------------------------------------------------------
(* Properties.                                                             *)

\* Goroutine t takes a step.
StepOf(t) ==
    \/ pc'[t] # pc[t]
    \/ idx'[t] # idx[t]
    \/ t = LoopTask /\ crashed' # crashed

\* C1: under every interleaving of the health-check loop and the restart
\* requests, at most one goroutine is between a successful TryLock of
\* restartMutex and its Unlock, the mutex is locked while one is, and at most one
\* goroutine is inside restartProcesses.
C1_AtMostOneHolder ==
    /\ Cardinality({t \in GateTasks : Holds(t)}) <= 1
    /\ Cardinality({t \in GateTasks : InStopSequence(t)}) <= 1
    /\ (\E t \in GateTasks : Holds(t)) => restartMutex

\* A restart handler is inside the stop sequence while the health-check loop,
\* having found the fleet unhealthy, is about to try the mutex.
C1_Witness ==
    /\ pc[LoopTask] = "trylock"
    /\ \E t \in RestartTasks : InStopSequence(t)

\* C2: a restart request that arrives while another restart request holds the
\* mutex is skipped (503) and neither it nor its return changes any handle, OS
\* process or the mutex; the request holding the mutex, on a failed probe, is the
\* one that enters the stop sequence.
C2_OverlappingRequestSkipped ==
    [][\A t \in RestartTasks :
          /\ (/\ pc[t] = "idle"
              /\ pc'[t] # "idle"
              /\ \E u \in RestartTasks \ {t} : Holds(u))
             => /\ pc'[t] = "return"
                /\ outcome'[t] = "skipped"
                /\ UNCHANGED <<procVars, dogVars, restartMutex>>
          /\ (pc[t] = "return" /\ pc'[t] # "return")
             => /\ pc'[t] = "idle"
                /\ UNCHANGED <<procVars, dogVars, restartMutex>>
          /\ (pc[t] = "check" /\ StepOf(t) /\ ~canConnectToProcess(idx[t]))
             => InStopSequence(t)'
      ]_vars

\* One restart request is inside the stop sequence and the other has been
\* skipped.
C2_Witness ==
    \E t \in RestartTasks : \E u \in RestartTasks \ {t} :
        InStopSequence(u) /\ outcome[t] = "skipped" /\ pc[t] = "return"

\* C3: a goroutine about to try restartMutex can always take its step, whether
\* the mutex is held or not (it never waits), and when the mutex is held the
\* step of a restart request answers skipped and the step of the health-check
\* loop goes back to the interval sleep.
C3_NeverBlockedOnGate ==
    /\ [](~crashed =>
            /\ pc[LoopTask] = "trylock" => ENABLED healthCheckLoop_TryLock
            /\ \A t \in RestartTasks :
                  pc[t] = "idle" => ENABLED restartHandler_TryLock(t))
    /\ [][/\ (pc[LoopTask] = "trylock" /\ restartMutex /\ StepOf(LoopTask))
             => pc'[LoopTask] = "sleep" /\ restartMutex'
          /\ \A t \in RestartTasks :
                (pc[t] = "idle" /\ restartMutex /\ StepOf(t))
                => /\ pc'[t] = "return"
                   /\ outcome'[t] = "skipped"
                   /\ status'[t] = StatusServiceUnavailable
                   /\ restartMutex'
      ]_vars

\* The mutex is held, one restart request has just been skipped and the
\* health-check loop is about to try the mutex.
C3_Witness ==
    /\ restartMutex
    /\ pc[LoopTask] = "trylock"
    /\ \E t \in RestartTasks : pc[t] = "return" /\ outcome[t] = "skipped"

\* C4 as claimed: every goroutine that acquires restartMutex, the health-check
\* loop included, runs healthCheck next.
C4_RecheckOnEveryPath ==
    [][\A t \in GateTasks : (~Holds(t) /\ Holds(t)') => pc'[t] = "check"]_vars

\* C4 as amended: a restart request that acquires the mutex runs healthCheck
\* next, from the first process; when the last probe succeeds it writes 200 with
\* outcome "not needed" without touching any handle, and its Unlock releases the
\* mutex; it enters the stop sequence only on a failed probe.  The health-check
\* loop goes from the acquisition straight into the stop sequence.
C4_RecheckOnExternalPath ==
    [][/\ \A t \in RestartTasks :
             /\ (~Holds(t) /\ Holds(t)') => pc'[t] = "check" /\ idx'[t] = 1
             /\ (/\ pc[t] = "check"
                 /\ StepOf(t)
                 /\ canConnectToProcess(idx[t])
                 /\ idx[t] = NumProcs)
                => /\ pc'[t] = "unlock"
                   /\ outcome'[t] = "notneeded"
                   /\ status'[t] = StatusOK
                   /\ UNCHANGED <<procVars, dogVars, restartMutex>>
             /\ (pc[t] = "check" /\ InStopSequence(t)')
                => ~canConnectToProcess(idx[t])
             /\ (pc[t] = "unlock" /\ outcome[t] = "notneeded" /\ StepOf(t))
                => /\ ~restartMutex'
                   /\ pc'[t] = "idle"
                   /\ UNCHANGED <<procVars, dogVars>>
       /\ (~Holds(LoopTask) /\ Holds(LoopTask)')
          => pc'[LoopTask] = "stop" /\ idx'[LoopTask] = 1
      ]_vars

\* A restart request has acquired the mutex, found every process reachable and
\* answered "not needed"; it still holds the mutex.
C4_Witness ==
    \E t \in RestartTasks :
        pc[t] = "unlock" /\ outcome[t] = "notneeded" /\ restartMutex

\* C5: whenever the OS process of a handle has terminated (it exited with code
\* 0 or with a non-zero code, or was killed by a signal, by an operator or by
\* the stop sequence) or the wait on it has returned (failed or not), the
\* handle's watchdog is able to take its next step towards a new start attempt:
\* the watchdog loop has not ended.
C5_WatchdogRestartsAfterTermination ==
    \A p \in Procs :
        (osProc[p] \in Terminated \/ (wpc[p] = "exited" /\ osProc[p] = "reaped"))
        => ENABLED watchProcess(p)

\* C6: no handle ever has more than one OS process that was spawned and not yet
\* reaped, and it has one exactly while the process behind its current Cmd is
\* running or has terminated without having been waited for.
C6_AtMostOneLiveInstance ==
    \A p \in Procs :
        /\ live[p] <= 1
        /\ live[p] = 1 <=> osProc[p] \in {"running"} \cup Terminated

\* The health-check loop has completed a stop sequence (every handle had an OS
\* process, and each was killed or already dead when its turn came) and a handle
\* is running again: its watchdog reaped the old instance and spawned a new one.
C6_Witness ==
    /\ pc[LoopTask] = "unlock"
    /\ \E p \in Procs : osProc[p] = "running" /\ live[p] = 1

\* C7: a step that replaces a handle's CmdObject, spawns an OS process for it or
\* makes its OS process running is a step of that handle's own watchdog inside
\* startProcess; no loop or handler goroutine moves in that step.
C7_OnlyWatchdogWritesIdentity ==
    [][\A p \in Procs :
          (\/ CmdObject'[p] # CmdObject[p]
           \/ live'[p] > live[p]
           \/ (osProc'[p] = "running" /\ osProc[p] # "running"))
          => /\ wpc[p] \in {"start", "spawn"}
             /\ wpc'[p] # wpc[p]
             /\ UNCHANGED <<pc, idx, restartMutex>>
      ]_vars

\* A restart request has completed its stop sequence, a /health request is being
\* served, and the watchdog of a handle is in the middle of startProcess, with
\* the new Cmd assigned and not yet started.
C7_Witness ==
    /\ \E t \in RestartTasks : outcome[t] = "performed"
    /\ \E t \in HealthTasks : pc[t] = "check"
    /\ \E p \in Procs : wpc[p] = "spawn" /\ CmdObject[p] = "noproc"

\* C8: a step of the stop sequence on a handle that has no OS process behind it
\* (CmdObject nil, or a Cmd without Process) changes no handle, keeps the
\* supervisor alive and goes on to the next process, or to the Unlock after the
\* last one.
C8_StopWithoutIdentityIsNoOp ==
    [][\A t \in GateTasks :
          (InStopSequence(t) /\ CmdObject[idx[t]] # "proc" /\ StepOf(t))
          => /\ ~crashed'
             /\ UNCHANGED procVars
             /\ \/ idx[t] < NumProcs /\ pc'[t] = "stop" /\ idx'[t] = idx[t] + 1
                \/ idx[t] = NumProcs /\ pc'[t] = "unlock"
      ]_vars

\* C9: the supervisor never terminates: every watchdog and the health-check loop
\* are still running.
C9_SupervisorNeverTerminates == ~crashed

\* C10: a handle whose spawn failed (the watchdog is back from startProcess with
\* a Cmd that has no Process) while every other process has been started is
\* still supervised: the supervisor is running and the watchdog's Wait returns,
\* so that the loop comes back to startProcess.
C10_SpawnFailureIsRetried ==
    \A p \in Procs :
        (/\ wpc[p] = "wait"
         /\ CmdObject[p] = "noproc"
         /\ \A q \in Procs \ {p} : CmdObject[q] = "proc")
        => ~crashed /\ ENABLED Wait(p)

\* The first process of the list of the call whose port is unreachable (hcLen + 1
\* when every port is reachable).
FirstUnreachable ==
    IF \A i \in 1..hcLen : hcReach[i]
    THEN hcLen + 1
    ELSE CHOOSE k \in 1..hcLen : ~hcReach[k] /\ \A i \in 1..(k - 1) : hcReach[i]

\* C11: on every process list and every assignment of reachable ports, a call
\* of healthCheck probes the processes in list order (a process is probed only
\* when every process before it has been probed once and none after it has been
\* probed); when it has returned, it has returned true iff every port is
\* reachable, processes 1..k have been probed exactly once each, k being the
\* first unreachable one (the whole list when there is none), and no process
\* after k has been probed.
C11_CheckAllShortCircuits ==
    /\ [](hcResult # "none" =>
            /\ hcResult = "true" <=> \A i \in 1..hcLen : hcReach[i]
            /\ \A i \in ListIdx :
                  hcProbes[i] = IF i <= FirstUnreachable /\ i <= hcLen THEN 1 ELSE 0)
    /\ [][\A i \in ListIdx :
             hcProbes'[i] # hcProbes[i]
             => /\ hcProbes'[i] = 1
                /\ \A j \in ListIdx :
                      /\ j < i => hcProbes[j] = 1 /\ hcReach[j]
                      /\ j > i => hcProbes[j] = 0
      ]_vars

\* The list P1 (reachable), P2 (unreachable), P3 (reachable): the call has
\* returned false, P1 and P2 have been probed once and P3 has not been probed.
C11_Witness ==
    /\ hcLen = 3
    /\ hcReach[1] /\ ~hcReach[2] /\ hcReach[3]
    /\ hcResult = "false"
    /\ hcProbes[1] = 1 /\ hcProbes[2] = 1 /\ hcProbes[3] = 0

\* The goroutines other than t stay where they are, and those that hold
\* restartMutex still hold it.
OthersKeepGate(t) ==
    \A u \in GateTasks \ {t} :
        /\ pc'[u] = pc[u]
        /\ idx'[u] = idx[u]
        /\ Holds(u) => Holds(u)'

\* C12: a restart attempt that finds restartMutex held, made by the
\* health-check loop or by a restart request, and the return of the skipped
\* request, kill no process, change no handle's CmdObject or OS process, leave
\* every watchdog where it is, leave the mutex locked and its holder in place,
\* and do not make the skipped goroutine a holder.
C12_SkippedAttemptHasNoSideEffects ==
    [][/\ (pc[LoopTask] = "trylock" /\ restartMutex /\ StepOf(LoopTask))
          => /\ UNCHANGED <<procVars, dogVars, restartMutex, crashed>>
             /\ ~Holds(LoopTask)'
             /\ OthersKeepGate(LoopTask)
       /\ \A t \in RestartTasks :
             /\ (pc[t] = "idle" /\ restartMutex /\ StepOf(t))
                => /\ UNCHANGED <<procVars, dogVars, restartMutex, crashed>>
                   /\ ~Holds(t)'
                   /\ OthersKeepGate(t)
             /\ (pc[t] = "return" /\ StepOf(t))
                => /\ UNCHANGED <<procVars, dogVars, restartMutex, crashed>>
                   /\ ~Holds(t)'
                   /\ OthersKeepGate(t)
      ]_vars

\* A restart request has been skipped while the health-check loop holds the
\* mutex and is about to kill a running process.
C12_Witness ==
    /\ pc[LoopTask] = "kill"
    /\ osProc[idx[LoopTask]] = "running"
    /\ restartMutex
    /\ \E t \in RestartTasks : pc[t] = "return" /\ outcome[t] = "skipped"

\* C13: a goroutine that has acquired restartMutex is always able to take its
\* next step towards the Unlock, on every path (healthCheck found every port
\* reachable, the stop sequence completed, the stop sequence met a handle
\* without an OS process), and the step of the Unlock releases the mutex: the
\* mutex is never left locked by a goroutine that cannot go on.
C13_GateEventuallyReleased ==
    /\ [](/\ Holds(LoopTask) => ENABLED healthCheckLoop
          /\ \A t \in RestartTasks : Holds(t) => ENABLED restartHandler(t))
    /\ [][\A t \in GateTasks :
             (Holds(t) /\ ~Holds(t)') => ~restartMutex'
      ]_vars

\* C14: when the handler of a restart request ends, the request has been
\* answered 503 if its TryLock failed (skipped) and 200 in every other case,
\* both when the stop sequence was performed and when healthCheck found every
\* port reachable and nothing was stopped; a status is 503 only for a skipped
\* request.
C14_RestartStatus ==
    /\ [](\A t \in RestartTasks :
            /\ status[t] = StatusServiceUnavailable <=> outcome[t] = "skipped"
            /\ status[t] = StatusOK <=> outcome[t] \in {"notneeded", "performed"})
    /\ [][\A t \in RestartTasks :
             (pc[t] # "idle" /\ pc'[t] = "idle")
             => IF Holds(t)
                THEN status[t] = StatusOK
                ELSE status[t] = StatusServiceUnavailable
      ]_vars

\* C15: however often the process of a handle has exited, once its watchdog has
\* observed the exit and is back in the stagger sleep of startProcess (the last
\* instance is reaped), the sleep can always end and the next exec.Cmd be built:
\* no state disables the next spawn.  The watchdog goes from the observed exit
\* to the stagger sleep and from there to the new exec.Cmd and its start, so
\* that every spawn, the first as the k-th, is preceded by exactly one stagger
\* sleep.
C15_CrashLoopKeepsRestarting ==
    /\ [](\A p \in Procs :
            (osProc[p] = "reaped" /\ wpc[p] = "start")
            => ENABLED startProcess_Command(p))
    /\ [][\A p \in Procs :
             /\ (wpc[p] = "exited" /\ wpc'[p] # wpc[p]) => wpc'[p] = "start"
             /\ (wpc[p] = "start" /\ wpc'[p] # wpc[p]) => wpc'[p] = "spawn"
             /\ live'[p] > live[p] => wpc[p] = "spawn"
      ]_vars

\* C16: at startup the processes are spawned in the order of the list: process
\* i+1 has no OS process before process i has left its stagger sleep and its
\* exec.Cmd has been built.
C16_SpawnedInConfigOrder ==
    \A i \in Procs :
        (i + 1 \in Procs /\ osProc[i + 1] # "none") => CmdObject[i] # "nil"

\* The handle of process q as its watchdog and its OS process see it.
Handle(q) == <<CmdObject[q], osProc[q], listening[q], live[q], wpc[q], waitLog[q]>>

C18_ExactlyOneClassification ==
    /\ [](\A p \in Procs : wpc[p] = "exited" => Cardinality(waitLog[p]) = 1)
    /\ [][\A p \in Procs :
             (wpc[p] = "wait" /\ wpc'[p] = "exited" /\ CmdObject[p] = "proc")
             => \/ waitLog'[p] = {"error"}
                \/ osProc[p] = "exit0" /\ waitLog'[p] = {"success"}
                \/ osProc[p] = "exitN" /\ waitLog'[p] = {"code"}
                \/ osProc[p] = "signaled" /\ waitLog'[p] = {"signal"}
      ]_vars

\* C19: when the captureOutput goroutine of a stream has ended, it has logged
\* every line the instance wrote to the stream, the lines written just before
\* the exit included: the Wait of the watchdog, whenever it runs, leaves no
\* written line unread.
C19_EveryLineLogged ==
    \A s \in Streams :
        outReader[s] \in {"done", "failed"} => outLogged[s] = outWritten[s]

\* C20: a /health request is answered when its call of healthCheck returns and
\* not before; the answer is 200 when the call returns true (the probe of the
\* last process succeeded, those before it having succeeded) and 503 when it
\* returns false (a probe failed); the handler changes nothing else.
C20_HealthStatus ==
    /\ [](\A t \in HealthTasks :
            /\ pc[t] = "return" <=> status[t] \in {StatusOK, StatusServiceUnavailable}
            /\ pc[t] \in {"idle", "check", "return"})
    /\ [][\A t \in HealthTasks :
             (pc[t] = "check" /\ StepOf(t))
             => /\ UNCHANGED <<procVars, dogVars, restartMutex, crashed>>
                /\ IF ~canConnectToProcess(idx[t])
                   THEN pc'[t] = "return" /\ status'[t] = StatusServiceUnavailable
                   ELSE IF idx[t] = NumProcs
                        THEN pc'[t] = "return" /\ status'[t] = StatusOK
                        ELSE /\ pc'[t] = "check"
                             /\ idx'[t] = idx[t] + 1
                             /\ status'[t] = 0
      ]_vars

\* A /health request has been answered 503 while some port is reachable and
\* another is not.
C20_Witness ==
    \E t \in HealthTasks :
        /\ pc[t] = "return"
        /\ status[t] = StatusServiceUnavailable
        /\ \E p \in Procs : listening[p]
        /\ \E p \in Procs : ~listening[p]

GoesOn(t) ==
    \/ idx[t] < NumProcs /\ pc'[t] = "stop" /\ idx'[t] = idx[t] + 1
    \/ idx[t] = NumProcs /\ pc'[t] = "unlock"

\* C22: a goroutine that has acquired the mutex and found a port unreachable
\* enters the stop sequence at the first process; for each process in list
\* order, reachable or not, it kills the OS process the handle has at that
\* moment and goes on to the next (a handle without one is passed over, so
\* that the running processes after it in the list are reached); it leaves the
\* sequence only after the last process, for the Unlock, which it can always
\* take at once, whether the killed processes have been reaped or started
\* again or not.
C22_StopSequenceKillsEveryProcess ==
    /\ [](\A t \in GateTasks :
            (pc[t] = "unlock" /\ ~crashed)
            => ENABLED (healthCheckLoop_Unlock \/ restartHandler_Unlock(t)))
    /\ [][\A t \in GateTasks :
             /\ (~InStopSequence(t) /\ InStopSequence(t)')
                => pc'[t] = "stop" /\ idx'[t] = 1
             /\ (pc[t] = "stop" /\ StepOf(t))
                => IF CmdObject[idx[t]] = "proc"
                   THEN pc'[t] = "kill" /\ idx'[t] = idx[t]
                   ELSE (\E q \in Procs : q > idx[t] /\ osProc[q] = "running")
                        => GoesOn(t)
             /\ (pc[t] = "kill" /\ StepOf(t))
                => /\ GoesOn(t)
                   /\ CmdObject[idx[t]] = "proc" => osProc'[idx[t]] # "running"
      ]_vars

\* C23: no step of stopProcess (the read of CmdObject.Process.Pid of line 280,
\* the read of CmdObject and the Kill of lines 281-282) sees the handle while
\* its watchdog is inside startProcess between the new exec.Cmd and its Start:
\* a Cmd that has replaced the previous one and has no OS process yet.
C23_StopNeverSeesHalfStartedHandle ==
    [][\A t \in GateTasks :
          (InStopSequence(t) /\ StepOf(t))
          => ~(CmdObject[idx[t]] = "noproc" /\ wpc[idx[t]] = "spawn")
      ]_vars

\* The number of OS processes spawned for handle p that are running.
RunningOf(p) ==
    orphans[p] + (IF osProc[p] = "running" THEN 1 ELSE 0)
               + (IF oldProc[p] = "running" THEN 1 ELSE 0)

\* C24: in the variant whose restartProcesses stops and then starts each
\* process, a handle never has two running OS processes: the stop of a handle
\* by restartProcesses is followed by the spawn of restartProcesses alone, not
\* by a second one of the handle's watchdog.
C24_NoDoubleStart == \A p \in Procs : RunningOf(p) <= 1

\* C25: restartMutex is unlocked only by the goroutine that holds it.  A
\* goroutine about to execute Unlock finds the mutex locked and no other
\* goroutine between TryLock and Unlock; a goroutine whose TryLock failed (the
\* health-check loop or a restart request) goes back to its sleep or to its
\* return with the mutex still locked, and the return of the skipped request
\* leaves the mutex as it is; every step that frees the mutex is a step of its
\* holder, at its Unlock or at the deferred Unlock of a panicking handler; and
\* the program never dies of an Unlock of an unlocked mutex.
C25_ReleasedOnlyByHolder ==
    /\ [](\A t \in GateTasks :
            pc[t] = "unlock"
            => restartMutex /\ \A u \in GateTasks \ {t} : ~Holds(u))
    /\ [][/\ (pc[LoopTask] = "trylock" /\ restartMutex /\ StepOf(LoopTask))
             => pc'[LoopTask] = "sleep" /\ restartMutex'
          /\ \A t \in RestartTasks :
                /\ (pc[t] = "idle" /\ restartMutex /\ StepOf(t))
                   => pc'[t] = "return" /\ restartMutex'
                /\ (pc[t] = "return" /\ StepOf(t))
                   => pc'[t] = "idle" /\ restartMutex' = restartMutex
          /\ (restartMutex /\ ~restartMutex')
             => \E t \in GateTasks :
                   /\ Holds(t) /\ StepOf(t) /\ ~Holds(t)'
                   /\ pc[t] = "unlock" \/ (t \in RestartTasks /\ InStopSequence(t))
                   /\ \A u \in GateTasks \ {t} : ~Holds(u)
          /\ (~crashed /\ crashed') => restartMutex
         ]_vars

\* A restart request whose TryLock failed is at its return while the
\* health-check loop, which holds the mutex, is about to unlock it.
C25_Witness ==
    /\ pc[LoopTask] = "unlock"
    /\ restartMutex
    /\ \E t \in RestartTasks : pc[t] = "return" /\ outcome[t] = "skipped"

\* What a call of healthCheck may not touch: the handles and their OS
\* processes, the watchdogs, restartMutex, and the other goroutines.
HealthCheckFrame(t) ==
    /\ UNCHANGED <<procVars, dogVars, restartMutex, crashed>>
    /\ \A u \in Tasks \ {t} : pc'[u] = pc[u] /\ idx'[u] = idx[u]

\* C26: healthCheck by itself changes nothing.  Every step of a /health request
\* (its probes and its answer) and every step of a cycle of the health-check
\* loop up to the return of healthCheck leaves restartMutex, every handle's
\* CmdObject and OS process and every watchdog as they are, and kills nothing;
\* a cycle whose healthCheck returns true goes back to its sleep without having
\* tried the mutex, and a /health request never becomes a holder.
C26_HealthCheckChangesNothing ==
    [][/\ \A t \in HealthTasks :
             StepOf(t) => HealthCheckFrame(t) /\ ~Holds(t)'
       /\ (pc[LoopTask] \in {"sleep", "check"} /\ StepOf(LoopTask))
          => /\ HealthCheckFrame(LoopTask)
             /\ ~Holds(LoopTask)'
             /\ (pc[LoopTask] = "check" /\ canConnectToProcess(idx[LoopTask]))
                => IF idx[LoopTask] < NumProcs
                   THEN pc'[LoopTask] = "check"
                   ELSE pc'[LoopTask] = "sleep"
      ]_vars

\* A /health request has been answered 200 and the health-check loop has
\* probed every process but the last with success, while every process is
\* running and restartMutex is free.
C26_Witness ==
    /\ \E t \in HealthTasks : pc[t] = "return" /\ status[t] = StatusOK
    /\ pc[LoopTask] = "check" /\ idx[LoopTask] = NumProcs
    /\ \A p \in Procs : osProc[p] = "running" /\ listening[p]
    /\ ~restartMutex

====
